---- MODULE Spec2Model ----
(***************************************************************************)
(* Model of the BagelBot order-intake backend (src/server.js).             *)
(*                                                                         *)
(* The datastore executes one statement atomically and is the only state   *)
(* the handlers share; a handler is suspended at each                      *)
(* `await pool.query(...)`.  An action is one handler segment: the code up *)
(* to and including the execution of the statement it awaits, so a handler *)
(* with one statement is one action and a handler with two statements is   *)
(* two actions, between which the other handlers interleave.               *)
(***************************************************************************)
EXTENDS Integers, Sequences, FiniteSets, TLC

\* ---------------------------------------------------------------- bounds
MaxTasks == 2        \* request handlers that may be suspended at once
MaxEntries == 3      \* rows the entries table may reach
MaxDay == 1          \* last calendar day of the wall clock (days 0..MaxDay)

\* ------------------------------------------------------- program constants
BaseOrderNumber == 100
VALID_KEY == "bagel2024secret"

\* ------------------------------------------------------------ JS / SQL values
Undefined == "<undefined>"       \* a field absent from the JSON body / header
Null == "<null>"                 \* SQL NULL / JSON null in a text column

Tasks == 1..MaxTasks

\* (variant: only an absent value counts as missing)
Falsy_MissingOnly(v) == v = Undefined

\* JS `!v` on the values a body field or header can take here
Falsy(v) == v \in {Undefined, Null, ""}

\* node-pg sends an undefined parameter as NULL
PgParam(v) == IF v = Undefined THEN Null ELSE v

\* request inputs
SubmitBodies ==
    { [name |-> "Alice", phoneNumber |-> Undefined, message |-> "2 everything bagels"],
      [name |-> "Bob", phoneNumber |-> "555-1234", message |-> ""],
      [name |-> "Bob", phoneNumber |-> "555-1234", message |-> Undefined] }
StatusInputs == {Undefined, "", "Done", "New"}
ApiKeys == {Undefined, "", "wrong", VALID_KEY}
StatusBodies ==
    { [store_closed |-> TRUE, notes |-> "Back at 9"],
      [store_closed |-> TRUE, notes |-> Undefined] }
\* values of the status query parameter of GET /entries
FilterInputs == {Undefined, "New", "done"}
\* ids a client may put in the path: surrogate keys, and the id that the
\* first POST /submit response of a day carries
IdInputs == (1..MaxEntries) \cup {BaseOrderNumber}

VARIABLES
    entries,              \* table entries: sequence of rows in insertion order
    entries_id_seq,       \* next value of the SERIAL behind entries.id
    store_status,         \* table store_status: sequence of rows
    store_status_id_seq,  \* next value of the SERIAL behind store_status.id
    now,                  \* wall clock, in calendar days (new Date(), CURRENT_TIMESTAMP)
    task,                 \* per handler slot: where it is suspended and its locals
    request,              \* the request received by the last step, if it received one
    executed,             \* the statements the datastore executed in the last step
    response              \* the response sent by the last step, if it sent one

vars == <<entries, entries_id_seq, store_status, store_status_id_seq, now, task,
          request, executed, response>>

Idle == [pc |-> "idle"]
NoRequest == [route |-> "none"]
NoResponse == [code |-> 0, route |-> "none"]

Init ==
    /\ entries = <<>>
    /\ entries_id_seq = 1
    /\ store_status = <<>>
    /\ store_status_id_seq = 1
    /\ now = 0
    /\ task = [t \in Tasks |-> Idle]
    /\ request = NoRequest
    /\ executed = <<>>
    /\ response = NoResponse

\* ------------------------------------------------------------ helpers
\* DATE(created_at) and getTodayDateString(): the calendar day of a clock value
DATE(ts) == ts
getTodayDateString == DATE(now)

\* (variant: the least element)
Max_Least(S) == CHOOSE m \in S : \A n \in S : m <= n

\* MAX(order_number)
Max(S) == CHOOSE m \in S : \A x \in S : x <= m

Digits == <<"0", "1", "2", "3", "4", "5", "6", "7", "8", "9">>

\* String(n) of a non-negative integer: its decimal digits
RECURSIVE String(_)
String(n) == IF n < 10 THEN <<Digits[n + 1]>>
             ELSE Append(String(n \div 10), Digits[(n % 10) + 1])

DigitValue(c) == CHOOSE d \in 0..9 : Digits[d + 1] = c
IsDigit(c) == \E d \in 0..9 : Digits[d + 1] = c

\* parseInt(s, 10): the value of the longest prefix of digits, <<>> for NaN
RECURSIVE ParsePrefix(_, _, _)
ParsePrefix(s, i, acc) ==
    IF i > Len(s) \/ ~IsDigit(s[i]) THEN acc
    ELSE ParsePrefix(s, i + 1, acc * 10 + DigitValue(s[i]))
parseInt(s) == IF Len(s) = 0 \/ ~IsDigit(s[1]) THEN <<>> ELSE <<ParsePrefix(s, 1, 0)>>

\* (variant: the WHERE clause is left out)
SelectMaxOrder_AllDays(today) ==
    LET S == {entries[i].order_number : i \in DOMAIN entries}
    IN  IF S = {} THEN <<>> ELSE <<Max(S)>>

\* SELECT MAX(order_number) AS max_order FROM entries WHERE DATE(created_at) = $1
\* <<>> is NULL (no row of that day), <<m>> the maximum
SelectMaxOrder(today) ==
    LET S == {entries[i].order_number : i \in {j \in DOMAIN entries : DATE(entries[j].created_at) = today}}
    IN  IF S = {} THEN <<>> ELSE <<Max(S)>>

\* (variant: the maximum is returned as it is)
getNextOrderNumber_NoIncrement ==
    LET maxOrder == SelectMaxOrder(getTodayDateString)
    IN  IF maxOrder = <<>> THEN BaseOrderNumber
        ELSE LET parsed == parseInt(String(maxOrder[1]))
             IN  IF parsed # <<>> THEN parsed[1] ELSE BaseOrderNumber

\* getNextOrderNumber: the value it returns when its query executes now
getNextOrderNumber ==
    LET maxOrder == SelectMaxOrder(getTodayDateString)
    IN  IF maxOrder = <<>> THEN BaseOrderNumber
        ELSE LET parsed == parseInt(String(maxOrder[1]))
             IN  IF parsed # <<>> THEN parsed[1] + 1 ELSE BaseOrderNumber

\* (variant: any key that is present is accepted)
checkApiKey_AnyKey(apiKey) == ~Falsy(apiKey)

\* checkApiKey calls next()
checkApiKey(apiKey) == ~(Falsy(apiKey) \/ apiKey # VALID_KEY)

InFlightSubmits == Cardinality({t \in Tasks : task[t].pc = "submit_insert"})

\* what a step received, had the datastore execute, and sent
Step(req, stmts, resp) ==
    /\ request' = req
    /\ executed' = stmts
    /\ response' = resp

\* ------------------------------------------------------------ POST /submit
\* a request without message is answered 400
SubmitInvalid(body) ==
    /\ Falsy(body.message)
    /\ Step([route |-> "POST /submit", body |-> body], <<>>,
            [code |-> 400, route |-> "POST /submit", error |-> "Message is required"])
    /\ UNCHANGED <<entries, entries_id_seq, store_status, store_status_id_seq, now, task>>

\* (variant: the handler stores the number after the allocated one)
Submit_SkipNumber(t, body) ==
    /\ task[t] = Idle
    /\ ~Falsy(body.message)
    /\ Len(entries) + InFlightSubmits < MaxEntries
    /\ task' = [task EXCEPT ![t] =
                  [pc |-> "submit_insert", body |-> body, today |-> getTodayDateString,
                   orderNumber |-> getNextOrderNumber + 1]]
    /\ Step([route |-> "POST /submit", body |-> body], <<"SELECT MAX(order_number)">>, NoResponse)
    /\ UNCHANGED <<entries, entries_id_seq, store_status, store_status_id_seq, now>>

\* validation passes; getNextOrderNumber computes today, its SELECT MAX
\* executes, and the handler issues the INSERT
Submit(t, body) ==
    /\ task[t] = Idle
    /\ ~Falsy(body.message)
    /\ Len(entries) + InFlightSubmits < MaxEntries
    /\ task' = [task EXCEPT ![t] =
                  [pc |-> "submit_insert", body |-> body, today |-> getTodayDateString,
                   orderNumber |-> getNextOrderNumber]]
    /\ Step([route |-> "POST /submit", body |-> body], <<"SELECT MAX(order_number)">>, NoResponse)
    /\ UNCHANGED <<entries, entries_id_seq, store_status, store_status_id_seq, now>>

\* (variant: name and phone_number bound to each other's parameter)
InsertedRow_Swapped(orderNumber, body) ==
    [id |-> entries_id_seq,
     order_number |-> orderNumber,
     name |-> PgParam(body.phoneNumber),
     phone_number |-> PgParam(body.name),
     message |-> PgParam(body.message),
     status |-> "New",
     created_at |-> now]

\* INSERT INTO entries ... RETURNING *
InsertedRow(orderNumber, body) ==
    [id |-> entries_id_seq,
     order_number |-> orderNumber,
     name |-> PgParam(body.name),
     phone_number |-> PgParam(body.phoneNumber),
     message |-> PgParam(body.message),
     status |-> "New",
     created_at |-> now]

\* the entry object of the POST /submit response, built from the inserted row
SubmitResponseEntry(row) ==
    [id |-> row.order_number,
     orderNumber |-> row.order_number,
     name |-> row.name,
     phoneNumber |-> row.phone_number,
     message |-> row.message,
     status |-> row.status,
     created_at |-> row.created_at]

\* the INSERT executes and the handler responds
SubmitInsert(t) ==
    /\ task[t].pc = "submit_insert"
    /\ LET row == InsertedRow(task[t].orderNumber, task[t].body)
       IN  /\ entries' = Append(entries, row)
           /\ entries_id_seq' = entries_id_seq + 1
           /\ Step(NoRequest, <<"INSERT INTO entries">>,
                   [code |-> 200, route |-> "POST /submit", entry |-> SubmitResponseEntry(row)])
    /\ task' = [task EXCEPT ![t] = Idle]
    /\ UNCHANGED <<store_status, store_status_id_seq, now>>

\* ------------------------------------------------------------ PUT /entries/:id/status
\* the entry object of the PUT /entries/:id/status response
StatusResponseEntry(row) ==
    [id |-> row.id,
     orderNumber |-> row.order_number,
     name |-> row.name,
     phoneNumber |-> row.phone_number,
     message |-> row.message,
     status |-> row.status,
     created_at |-> row.created_at]

\* (variant: the lookup is by order number)
MatchingRows_ByOrderNumber(id) == {i \in DOMAIN entries : entries[i].order_number = id}

\* the rows that WHERE id = $2 selects
MatchingRows(id) == {i \in DOMAIN entries : entries[i].id = id}

\* (variant: the WHERE clause is left out of the UPDATE)
UpdateStatus_AllRows(id, status) ==
    [i \in DOMAIN entries |-> [entries[i] EXCEPT !.status = status]]

\* UPDATE entries SET status = $1 WHERE id = $2: the table after the statement
UpdateStatus(id, status) ==
    [i \in DOMAIN entries |->
        IF i \in MatchingRows(id) THEN [entries[i] EXCEPT !.status = status] ELSE entries[i]]

\* (variant: the entry is looked up before the status is validated)
PutEntryStatus_LookupFirst(id, status) ==
    LET req == [route |-> "PUT /entries/:id/status", id |-> id, status |-> status]
    IN  /\ IF MatchingRows(id) = {}
           THEN /\ Step(req, <<"SELECT entries">>,
                        [code |-> 404, route |-> "PUT /entries/:id/status",
                         error |-> "Entry not found"])
                /\ UNCHANGED entries
           ELSE IF Falsy(status)
                THEN /\ Step(req, <<"SELECT entries">>,
                             [code |-> 400, route |-> "PUT /entries/:id/status",
                              error |-> "Status is required"])
                     /\ UNCHANGED entries
                ELSE /\ entries' = UpdateStatus(id, status)
                     /\ Step(req, <<"SELECT entries", "UPDATE entries">>,
                             [code |-> 200, route |-> "PUT /entries/:id/status",
                              entry |-> StatusResponseEntry(
                                            entries'[CHOOSE i \in MatchingRows(id) : TRUE])])
        /\ UNCHANGED <<entries_id_seq, store_status, store_status_id_seq, now, task>>

\* the whole handler: validation, the UPDATE, and the response
PutEntryStatus(id, status) ==
    LET req == [route |-> "PUT /entries/:id/status", id |-> id, status |-> status]
    IN  /\ IF Falsy(status)
           THEN /\ Step(req, <<>>, [code |-> 400, route |-> "PUT /entries/:id/status",
                                    error |-> "Status is required"])
                /\ UNCHANGED entries
           ELSE IF MatchingRows(id) = {}
                THEN /\ Step(req, <<"UPDATE entries">>,
                             [code |-> 404, route |-> "PUT /entries/:id/status",
                              error |-> "Entry not found"])
                     /\ UNCHANGED entries
                ELSE /\ entries' = UpdateStatus(id, status)
                     /\ Step(req, <<"UPDATE entries">>,
                             [code |-> 200, route |-> "PUT /entries/:id/status",
                              entry |-> StatusResponseEntry(
                                            entries'[CHOOSE i \in MatchingRows(id) : TRUE])])
        /\ UNCHANGED <<entries_id_seq, store_status, store_status_id_seq, now, task>>

\* ------------------------------------------------------------ GET /entries
\* (variant: the status comparison ignores case)
SelectEntries_IgnoreCase(status) ==
    {i \in DOMAIN entries :
        \/ Falsy(status)
        \/ entries[i].status = status
        \/ {entries[i].status, status} = {"Done", "done"}}

\* the rows FROM entries [WHERE status = $1] selects; the WHERE clause is
\* added only `if (status)`
SelectEntries(status) ==
    {i \in DOMAIN entries : Falsy(status) \/ entries[i].status = status}

\* the select list: order_number AS "orderNumber", phone_number AS "phoneNumber"
EntryColumns(row) ==
    [id |-> row.id,
     orderNumber |-> row.order_number,
     name |-> row.name,
     phoneNumber |-> row.phone_number,
     message |-> row.message,
     status |-> row.status,
     created_at |-> row.created_at]

\* ORDER BY created_at DESC: the orders in which the datastore may return the
\* rows S (rows with equal created_at come in any order)
RECURSIVE OrderByCreatedAtDesc(_)
OrderByCreatedAtDesc(S) ==
    IF S = {} THEN {<<>>}
    ELSE LET newest == {i \in S : \A j \in S : entries[i].created_at >= entries[j].created_at}
         IN  UNION {{<<i>> \o o : o \in OrderByCreatedAtDesc(S \ {i})} : i \in newest}

\* (variant: listing the entries marks the listed rows as seen)
GetEntries_MarkSeen(status) ==
    /\ \E o \in OrderByCreatedAtDesc(SelectEntries(status)) :
          Step([route |-> "GET /entries", status |-> status], <<"SELECT entries">>,
               [code |-> 200, route |-> "GET /entries",
                entries |-> [k \in DOMAIN o |-> EntryColumns(entries[o[k]])]])
    /\ entries' = [i \in DOMAIN entries |->
                     IF i \in SelectEntries(status)
                     THEN [entries[i] EXCEPT !.status = "Seen"]
                     ELSE entries[i]]
    /\ UNCHANGED <<entries_id_seq, store_status, store_status_id_seq, now, task>>

\* the whole handler: the SELECT and the response
GetEntries(status) ==
    /\ \E o \in OrderByCreatedAtDesc(SelectEntries(status)) :
          Step([route |-> "GET /entries", status |-> status], <<"SELECT entries">>,
               [code |-> 200, route |-> "GET /entries",
                entries |-> [k \in DOMAIN o |-> EntryColumns(entries[o[k]])]])
    /\ UNCHANGED <<entries, entries_id_seq, store_status, store_status_id_seq, now, task>>

\* ------------------------------------------------------------ store-status
StoreStatusRoutes == {"GET /store-status", "PUT /store-status"}

\* checkApiKey rejects a GET or PUT /store-status request
StoreStatusUnauthorized(route, apiKey) ==
    /\ ~checkApiKey(apiKey)
    /\ Step([route |-> route, apiKey |-> apiKey], <<>>,
            [code |-> 403, route |-> route, error |-> "Unauthorized - Invalid API key"])
    /\ UNCHANGED <<entries, entries_id_seq, store_status, store_status_id_seq, now, task>>

\* INSERT INTO store_status (store_closed, notes) VALUES ($1, $2)
StatusRow(store_closed, notes) ==
    [id |-> store_status_id_seq, store_closed |-> store_closed, notes |-> notes]

\* GET /store-status: checkApiKey passes and SELECT store_closed, notes FROM
\* store_status LIMIT 1 executes (with no ORDER BY the datastore may return
\* any row); the handler responds with the row or issues the lazy-create INSERT
GetStoreStatus(t, apiKey) ==
    /\ task[t] = Idle
    /\ checkApiKey(apiKey)
    /\ LET req == [route |-> "GET /store-status", apiKey |-> apiKey]
       IN  IF store_status = <<>>
           THEN /\ task' = [task EXCEPT ![t] = [pc |-> "get_status_insert"]]
                /\ Step(req, <<"SELECT store_status">>, NoResponse)
           ELSE /\ \E i \in DOMAIN store_status :
                     Step(req, <<"SELECT store_status">>,
                          [code |-> 200, route |-> "GET /store-status",
                           store_closed |-> store_status[i].store_closed,
                           notes |-> store_status[i].notes])
                /\ UNCHANGED task
    /\ UNCHANGED <<entries, entries_id_seq, store_status, store_status_id_seq, now>>

\* (variant: the defaults are returned without being stored)
GetStoreStatusInsert_NoInsert(t) ==
    /\ task[t].pc = "get_status_insert"
    /\ Step(NoRequest, <<>>,
            [code |-> 200, route |-> "GET /store-status", store_closed |-> FALSE, notes |-> ""])
    /\ task' = [task EXCEPT ![t] = Idle]
    /\ UNCHANGED <<entries, entries_id_seq, store_status, store_status_id_seq, now>>

\* the lazy-create INSERT executes and the handler responds with the defaults
GetStoreStatusInsert(t) ==
    /\ task[t].pc = "get_status_insert"
    /\ store_status' = Append(store_status, StatusRow(FALSE, ""))
    /\ store_status_id_seq' = store_status_id_seq + 1
    /\ Step(NoRequest, <<"INSERT INTO store_status">>,
            [code |-> 200, route |-> "GET /store-status", store_closed |-> FALSE, notes |-> ""])
    /\ task' = [task EXCEPT ![t] = Idle]
    /\ UNCHANGED <<entries, entries_id_seq, now>>

\* PUT /store-status: checkApiKey passes and SELECT id FROM store_status
\* LIMIT 1 executes; the handler issues the INSERT, or the UPDATE of the row
\* it was given
PutStoreStatus(t, apiKey, body) ==
    /\ task[t] = Idle
    /\ checkApiKey(apiKey)
    /\ LET notes == IF Falsy(body.notes) THEN "" ELSE body.notes
       IN  IF store_status = <<>>
           THEN task' = [task EXCEPT ![t] = [pc |-> "put_status_insert",
                                             store_closed |-> body.store_closed, notes |-> notes]]
           ELSE \E i \in DOMAIN store_status :
                  task' = [task EXCEPT ![t] = [pc |-> "put_status_update", id |-> store_status[i].id,
                                               store_closed |-> body.store_closed, notes |-> notes]]
    /\ Step([route |-> "PUT /store-status", apiKey |-> apiKey, body |-> body],
            <<"SELECT store_status">>, NoResponse)
    /\ UNCHANGED <<entries, entries_id_seq, store_status, store_status_id_seq, now>>

\* INSERT INTO store_status ... RETURNING * executes and the handler responds
PutStoreStatusInsert(t) ==
    /\ task[t].pc = "put_status_insert"
    /\ LET row == StatusRow(task[t].store_closed, task[t].notes)
       IN  /\ store_status' = Append(store_status, row)
           /\ store_status_id_seq' = store_status_id_seq + 1
           /\ Step(NoRequest, <<"INSERT INTO store_status">>,
                   [code |-> 200, route |-> "PUT /store-status", status |-> row])
    /\ task' = [task EXCEPT ![t] = Idle]
    /\ UNCHANGED <<entries, entries_id_seq, now>>

\* UPDATE store_status SET store_closed = $1, notes = $2 WHERE id = $3
\* RETURNING * executes and the handler responds
PutStoreStatusUpdate(t) ==
    /\ task[t].pc = "put_status_update"
    /\ store_status' = [i \in DOMAIN store_status |->
            IF store_status[i].id = task[t].id
            THEN [store_status[i] EXCEPT !.store_closed = task[t].store_closed,
                                         !.notes = task[t].notes]
            ELSE store_status[i]]
    /\ Step(NoRequest, <<"UPDATE store_status">>,
            [code |-> 200, route |-> "PUT /store-status",
             status |-> [id |-> task[t].id, store_closed |-> task[t].store_closed,
                         notes |-> task[t].notes]])
    /\ task' = [task EXCEPT ![t] = Idle]
    /\ UNCHANGED <<entries, entries_id_seq, store_status_id_seq, now>>

\* ------------------------------------------------------------ failed statements
\* pool.query rejects: the statement is recorded with the marker "ERROR"
\* after it and has no effect on the tables
Rejected(stmt) == <<stmt, "ERROR">>

\* the 500 response of each route's catch block
ServerError(route) ==
    [code |-> 500, route |-> route,
     error |-> CASE route = "POST /submit" -> "Failed to submit entry"
                 [] route = "GET /entries" -> "Failed to fetch entries"
                 [] route = "PUT /entries/:id/status" -> "Failed to update entry"
                 [] route = "GET /store-status" -> "Failed to fetch store status"
                 [] route = "PUT /store-status" -> "Failed to update store status"]

\* the route of a suspended handler
PcRoute(pc) ==
    CASE pc = "submit_insert" -> "POST /submit"
      [] pc = "get_status_insert" -> "GET /store-status"
      [] pc \in {"put_status_insert", "put_status_update"} -> "PUT /store-status"

\* the statement a suspended handler is waiting for
PcStatement(pc) ==
    CASE pc = "submit_insert" -> "INSERT INTO entries"
      [] pc \in {"get_status_insert", "put_status_insert"} -> "INSERT INTO store_status"
      [] pc = "put_status_update" -> "UPDATE store_status"

\* (variant: getNextOrderNumber swallows the error and returns 100)
SubmitAllocatorFails_Swallowed(t, body) ==
    /\ task[t] = Idle
    /\ ~Falsy(body.message)
    /\ Len(entries) + InFlightSubmits < MaxEntries
    /\ task' = [task EXCEPT ![t] =
                  [pc |-> "submit_insert", body |-> body, today |-> getTodayDateString,
                   orderNumber |-> BaseOrderNumber]]
    /\ Step([route |-> "POST /submit", body |-> body],
            Rejected("SELECT MAX(order_number)"), NoResponse)
    /\ UNCHANGED <<entries, entries_id_seq, store_status, store_status_id_seq, now>>

\* POST /submit: the allocator's SELECT MAX fails; getNextOrderNumber logs
\* and rethrows, the handler's catch block answers 500 and no INSERT is issued
SubmitAllocatorFails(t, body) ==
    /\ task[t] = Idle
    /\ ~Falsy(body.message)
    /\ Step([route |-> "POST /submit", body |-> body],
            Rejected("SELECT MAX(order_number)"), ServerError("POST /submit"))
    /\ UNCHANGED <<entries, entries_id_seq, store_status, store_status_id_seq, now, task>>

\* GET /entries: the SELECT fails
GetEntriesFails(status) ==
    /\ Step([route |-> "GET /entries", status |-> status],
            Rejected("SELECT entries"), ServerError("GET /entries"))
    /\ UNCHANGED <<entries, entries_id_seq, store_status, store_status_id_seq, now, task>>

\* PUT /entries/:id/status: validation passes and the UPDATE fails
PutEntryStatusFails(id, status) ==
    /\ ~Falsy(status)
    /\ Step([route |-> "PUT /entries/:id/status", id |-> id, status |-> status],
            Rejected("UPDATE entries"), ServerError("PUT /entries/:id/status"))
    /\ UNCHANGED <<entries, entries_id_seq, store_status, store_status_id_seq, now, task>>

\* GET or PUT /store-status: checkApiKey passes and the first SELECT fails
StoreStatusSelectFails(route, apiKey) ==
    /\ checkApiKey(apiKey)
    /\ Step([route |-> route, apiKey |-> apiKey],
            Rejected("SELECT store_status"), ServerError(route))
    /\ UNCHANGED <<entries, entries_id_seq, store_status, store_status_id_seq, now, task>>

\* the statement a suspended handler awaits fails: its catch block answers
\* 500 and the handler ends
AwaitedStatementFails(t) ==
    /\ task[t] # Idle
    /\ Step(NoRequest, Rejected(PcStatement(task[t].pc)), ServerError(PcRoute(task[t].pc)))
    /\ task' = [task EXCEPT ![t] = Idle]
    /\ UNCHANGED <<entries, entries_id_seq, store_status, store_status_id_seq, now>>

\* the datastore answers the statement a suspended handler awaits
AwaitedStatementSettles(t) ==
    \/ SubmitInsert(t)
    \/ GetStoreStatusInsert(t)
    \/ PutStoreStatusInsert(t)
    \/ PutStoreStatusUpdate(t)
    \/ AwaitedStatementFails(t)

\* ------------------------------------------------------------ environment
\* the wall clock passes midnight
Tick ==
    /\ now < MaxDay
    /\ now' = now + 1
    /\ Step(NoRequest, <<>>, NoResponse)
    /\ UNCHANGED <<entries, entries_id_seq, store_status, store_status_id_seq, task>>

\* no handler is suspended
AllIdle == \A t \in Tasks : task[t] = Idle

\* ------------------------------------------------------------ specifications
EntriesNext ==
    \/ \E body \in SubmitBodies : SubmitInvalid(body)
    \/ \E t \in Tasks, body \in SubmitBodies : Submit(t, body)
    \/ \E t \in Tasks : SubmitInsert(t)
    \/ \E id \in IdInputs, status \in StatusInputs : PutEntryStatus(id, status)
    \/ Tick

\* the entry routes when a request is received only after the previous one
\* has been answered
ListNext ==
    \/ AllIdle /\ \E body \in SubmitBodies : SubmitInvalid(body)
    \/ AllIdle /\ \E t \in Tasks, body \in SubmitBodies : Submit(t, body)
    \/ \E t \in Tasks : SubmitInsert(t)
    \/ AllIdle /\ \E id \in IdInputs, status \in StatusInputs : PutEntryStatus(id, status)
    \/ AllIdle /\ \E status \in FilterInputs : GetEntries(status)
    \/ Tick

StoreNext ==
    \/ \E route \in StoreStatusRoutes, apiKey \in ApiKeys : StoreStatusUnauthorized(route, apiKey)
    \/ \E t \in Tasks, apiKey \in ApiKeys : GetStoreStatus(t, apiKey)
    \/ \E t \in Tasks : GetStoreStatusInsert(t)
    \/ \E t \in Tasks, apiKey \in ApiKeys, body \in StatusBodies : PutStoreStatus(t, apiKey, body)
    \/ \E t \in Tasks : PutStoreStatusInsert(t)
    \/ \E t \in Tasks : PutStoreStatusUpdate(t)

\* every route but GET /entries when a request is received only after the
\* previous one has been answered
SeqNext ==
    \/ AllIdle /\ \E body \in SubmitBodies : SubmitInvalid(body)
    \/ AllIdle /\ \E t \in Tasks, body \in SubmitBodies : Submit(t, body)
    \/ \E t \in Tasks : SubmitInsert(t)
    \/ AllIdle /\ \E id \in IdInputs, status \in StatusInputs : PutEntryStatus(id, status)
    \/ AllIdle /\ \E route \in StoreStatusRoutes, apiKey \in ApiKeys :
                     StoreStatusUnauthorized(route, apiKey)
    \/ AllIdle /\ \E t \in Tasks, apiKey \in ApiKeys : GetStoreStatus(t, apiKey)
    \/ \E t \in Tasks : GetStoreStatusInsert(t)
    \/ AllIdle /\ \E t \in Tasks, apiKey \in ApiKeys, body \in StatusBodies :
                     PutStoreStatus(t, apiKey, body)
    \/ \E t \in Tasks : PutStoreStatusInsert(t)
    \/ \E t \in Tasks : PutStoreStatusUpdate(t)
    \/ Tick

\* the same with GET /entries
SeqListNext ==
    \/ SeqNext
    \/ AllIdle /\ \E status \in FilterInputs : GetEntries(status)

\* POST /submit requests interleaved at the datastore statements, the day
\* changing only while no request is between its allocator read and its insert
SameDayNext ==
    \/ \E body \in SubmitBodies : SubmitInvalid(body)
    \/ \E t \in Tasks, body \in SubmitBodies : Submit(t, body)
    \/ \E t \in Tasks : SubmitInsert(t)
    \/ InFlightSubmits = 0 /\ Tick

\* every route on one day, each statement succeeding or failing, when a
\* request is received only after the previous one has been answered
FailNext ==
    \/ AllIdle /\ \E body \in SubmitBodies : SubmitInvalid(body)
    \/ AllIdle /\ \E t \in Tasks, body \in SubmitBodies : Submit(t, body)
    \/ AllIdle /\ \E id \in IdInputs, status \in StatusInputs : PutEntryStatus(id, status)
    \/ AllIdle /\ \E status \in FilterInputs : GetEntries(status)
    \/ AllIdle /\ \E route \in StoreStatusRoutes, apiKey \in ApiKeys :
                     StoreStatusUnauthorized(route, apiKey)
    \/ AllIdle /\ \E t \in Tasks, apiKey \in ApiKeys : GetStoreStatus(t, apiKey)
    \/ AllIdle /\ \E t \in Tasks, apiKey \in ApiKeys, body \in StatusBodies :
                     PutStoreStatus(t, apiKey, body)
    \/ AllIdle /\ \E t \in Tasks, body \in SubmitBodies : SubmitAllocatorFails(t, body)
    \/ AllIdle /\ \E status \in FilterInputs : GetEntriesFails(status)
    \/ AllIdle /\ \E id \in IdInputs, status \in StatusInputs : PutEntryStatusFails(id, status)
    \/ AllIdle /\ \E route \in StoreStatusRoutes, apiKey \in ApiKeys :
                     StoreStatusSelectFails(route, apiKey)
    \/ \E t \in Tasks : AwaitedStatementSettles(t)

Next ==
    \/ EntriesNext
    \/ \E status \in FilterInputs : GetEntries(status)
    \/ StoreNext

\* every route, requests interleaved at the datastore statements
Spec == Init /\ [][Next]_vars
\* the entry routes but GET /entries
EntriesSpec == Init /\ [][EntriesNext]_vars
\* the entry routes, one request at a time
ListSpec == Init /\ [][ListNext]_vars
\* the store-status routes alone
StoreSpec == Init /\ [][StoreNext]_vars
\* every route but GET /entries, one request at a time
SeqSpec == Init /\ [][SeqNext]_vars
\* every route, one request at a time
SeqListSpec == Init /\ [][SeqListNext]_vars

\* interleaved POST /submit requests, none of them spanning midnight
SameDaySpec == Init /\ [][SameDayNext]_vars

\* one day of requests with failing statements; every statement a handler
\* awaits is eventually answered, with a result or with an error
FailSpec ==
    /\ Init
    /\ [][FailNext]_vars
    /\ \A t \in Tasks : WF_vars(AwaitedStatementSettles(t))

\* ------------------------------------------------------------ properties

\* C1: in every reachable state, any two stored entries whose created_at
\* falls on the same calendar day have distinct orderNumber values.
C1_DistinctOrderNumbersPerDay ==
    \A i, j \in DOMAIN entries :
        (i # j /\ DATE(entries[i].created_at) = DATE(entries[j].created_at))
            => entries[i].order_number # entries[j].order_number

\* C2 as stated: the first entry stored for a calendar day has orderNumber
\* 100, whenever its allocator read took place.
C2_FirstOfDayIs100 ==
    \A i \in DOMAIN entries :
        (\A j \in 1..(i - 1) : DATE(entries[j].created_at) # DATE(entries[i].created_at))
            => entries[i].order_number = 100

\* C2 amended: when an INSERT stores the first entry of the current day and
\* the allocator read of that request took place on the same day, the entry
\* has orderNumber 100, whatever the entries of other days are.
C2_FirstOfDayIs100WhenReadThatDay ==
    [][\A t \in Tasks :
          (/\ task[t].pc = "submit_insert"
           /\ task'[t] = Idle
           /\ task[t].today = DATE(now)
           /\ \A j \in DOMAIN entries : DATE(entries[j].created_at) # DATE(now))
          => (/\ Len(entries') = Len(entries) + 1
              /\ entries'[Len(entries')].order_number = 100)]_vars

\* an entry numbered 100 opens day 1 after day 0 reached 101
C2_Witness ==
    \E i \in DOMAIN entries :
        /\ entries[i].created_at = 1
        /\ entries[i].order_number = 100
        /\ \A j \in 1..(i - 1) : entries[j].created_at = 0
        /\ \E j \in 1..(i - 1) : entries[j].order_number = 101

\* C3: of two entries created on the same calendar day, the one created
\* later has the strictly larger orderNumber.
C3_LaterEntryLargerNumber ==
    \A i, j \in DOMAIN entries :
        (i < j /\ DATE(entries[i].created_at) = DATE(entries[j].created_at))
            => entries[i].order_number < entries[j].order_number

\* C4: in every reachable state the store_status table holds at most one row.
C4_AtMostOneStatusRow == Len(store_status) <= 1

\* C5: with requests one at a time, the GET /store-status that found the
\* table empty answers {store_closed: false, notes: ""} and leaves exactly
\* one row; a GET received right after a GET was answered returns the same
\* values and leaves the table as it was, with exactly one row.
C5_SequentialGetLazyCreate ==
    [][/\ \A t \in Tasks :
            (task[t].pc = "get_status_insert" /\ task'[t] = Idle)
            => (/\ response'.code = 200
                /\ response'.store_closed = FALSE
                /\ response'.notes = ""
                /\ Len(store_status') = 1)
       /\ (/\ response.code = 200
           /\ response.route = "GET /store-status"
           /\ request'.route = "GET /store-status"
           /\ request'.apiKey = "bagel2024secret")
          => (/\ response'.code = 200
              /\ response'.store_closed = response.store_closed
              /\ response'.notes = response.notes
              /\ store_status' = store_status
              /\ Len(store_status') = 1)]_vars

\* a GET has just been answered with the defaults from the single stored row
C5_Witness ==
    /\ request.route = "GET /store-status"
    /\ executed = <<"SELECT store_status">>
    /\ response.code = 200
    /\ response.store_closed = FALSE
    /\ response.notes = ""
    /\ Len(store_status) = 1

\* C6: a GET or PUT /store-status whose x-api-key is absent or differs from
\* the configured key is answered 403, no statement is executed or left
\* pending, and store_status and entries are unchanged.
C6_UnauthorizedRejectedUntouched ==
    [][(/\ request'.route \in {"GET /store-status", "PUT /store-status"}
        /\ request'.apiKey # "bagel2024secret")
       => (/\ response'.code = 403
           /\ executed' = <<>>
           /\ task' = task
           /\ store_status' = store_status
           /\ store_status_id_seq' = store_status_id_seq
           /\ entries' = entries
           /\ entries_id_seq' = entries_id_seq)]_vars

\* a PUT with a wrong key was answered 403 while a row is stored
C6_Witness ==
    /\ request.route = "PUT /store-status"
    /\ request.apiKey = "wrong"
    /\ response.code = 403
    /\ Len(store_status) >= 1

\* C7: a POST /submit whose message is missing or empty is answered 400, the
\* allocator query is not executed or left pending, and entries is unchanged.
C7_MissingMessageRejected ==
    [][(/\ request'.route = "POST /submit"
        /\ request'.body.message \in {Undefined, ""})
       => (/\ response'.code = 400
           /\ executed' = <<>>
           /\ task' = task
           /\ entries' = entries
           /\ entries_id_seq' = entries_id_seq)]_vars

\* an empty message was answered 400 while entries are stored
C7_Witness ==
    /\ request.route = "POST /submit"
    /\ request.body.message = ""
    /\ response.code = 400
    /\ Len(entries) >= 1

C9_ResponseIdIsSurrogateKey ==
    [][\A t \in Tasks :
          (task[t].pc = "submit_insert" /\ task'[t] = Idle)
          => (/\ response'.code = 200
              /\ response'.entry.id = entries'[Len(entries')].id)]_vars

C12_NextIsMaxPlusOne ==
    [][\A t \in Tasks :
          /\ (task[t] = Idle /\ task'[t].pc = "submit_insert")
             => LET today == {i \in DOMAIN entries : entries[i].created_at = now}
                IN  today # {}
                    => /\ \E i \in today : task'[t].orderNumber = entries[i].order_number + 1
                       /\ \A i \in today : task'[t].orderNumber > entries[i].order_number
          /\ (task[t].pc = "submit_insert" /\ task'[t] = Idle)
             => /\ Len(entries') = Len(entries) + 1
                /\ entries'[Len(entries')].order_number = task[t].orderNumber]_vars

\* the third submission of a day was stored with 102 after 100 and 101
C12_Witness ==
    /\ response.route = "POST /submit"
    /\ response.code = 200
    /\ Len(entries) = 3
    /\ entries[1].order_number = 100
    /\ entries[2].order_number = 101
    /\ entries[3].order_number = 102
    /\ entries[1].created_at = entries[3].created_at

\* C13: a successful PUT /entries/:id/status sets the status of the entry
\* with that id to the supplied value and changes nothing else: the entry's
\* other fields and all other entries are unchanged.
C13_StatusUpdateOnly ==
    [][(request'.route = "PUT /entries/:id/status" /\ response'.code = 200)
       => /\ request'.status \notin {Undefined, ""}
          /\ \E i \in DOMAIN entries : entries[i].id = request'.id
          /\ DOMAIN entries' = DOMAIN entries
          /\ \A i \in DOMAIN entries :
                IF entries[i].id = request'.id
                THEN /\ entries'[i].status = request'.status
                     /\ entries'[i].id = entries[i].id
                     /\ entries'[i].order_number = entries[i].order_number
                     /\ entries'[i].name = entries[i].name
                     /\ entries'[i].phone_number = entries[i].phone_number
                     /\ entries'[i].message = entries[i].message
                     /\ entries'[i].created_at = entries[i].created_at
                ELSE entries'[i] = entries[i]]_vars

\* entry 2 was set to "Done" while entries 1 and 3 stayed "New"
C13_Witness ==
    /\ request.route = "PUT /entries/:id/status"
    /\ request.id = 2
    /\ request.status = "Done"
    /\ response.code = 200
    /\ Len(entries) = 3
    /\ entries[1].status = "New"
    /\ entries[2].status = "Done"
    /\ entries[3].status = "New"

\* C14: a PUT /entries/:id/status whose status is missing or empty is
\* answered 400 whether or not the id exists, no statement is executed or
\* left pending, and no entry is modified.
C14_MissingStatusRejected ==
    [][(/\ request'.route = "PUT /entries/:id/status"
        /\ request'.status \in {Undefined, ""})
       => (/\ response'.code = 400
           /\ executed' = <<>>
           /\ task' = task
           /\ entries' = entries)]_vars

\* an empty status for the id of no stored entry was answered 400, not 404
C14_Witness ==
    /\ request.route = "PUT /entries/:id/status"
    /\ request.status = ""
    /\ request.id = 100
    /\ response.code = 400
    /\ Len(entries) >= 1

\* C15: an authorized GET /store-status received right after an authorized
\* PUT /store-status has been answered returns the store_closed and notes
\* that PUT wrote, whatever GET and PUT requests were interleaved before;
\* and the PUT that was given an existing row writes it without adding a row.
C15_GetReturnsLastPut ==
    [][/\ (/\ response.code = 200
           /\ response.route = "PUT /store-status"
           /\ request'.route = "GET /store-status"
           /\ response'.code = 200)
          => (/\ response'.store_closed = response.status.store_closed
              /\ response'.notes = response.status.notes)
       /\ ("UPDATE store_status" \in {executed'[k] : k \in DOMAIN executed'})
          => Len(store_status') = Len(store_status)]_vars

\* C16: every request receives exactly one response, also when a statement
\* fails: a step that receives a request either answers it or suspends one
\* handler, and a suspended handler ends with exactly one response, which it
\* eventually does; a failed statement yields 500, changes no table and ends
\* the handler; a failed allocator query of POST /submit yields 500 with no
\* INSERT issued and no row inserted.
C16_FailureYields500 ==
    /\ [][/\ (Len(executed') >= 1 /\ executed'[Len(executed')] = "ERROR")
             => (/\ response'.code = 500
                 /\ entries' = entries
                 /\ store_status' = store_status
                 /\ \A t \in Tasks : task'[t] \in {task[t], Idle})
          /\ (/\ request'.route = "POST /submit"
              /\ executed' = Rejected("SELECT MAX(order_number)"))
             => (/\ response'.code = 500
                 /\ task' = task
                 /\ entries' = entries)
          /\ (request'.route # "none")
             => \/ /\ response'.code # 0
                   /\ response'.route = request'.route
                   /\ task' = task
                \/ /\ response'.code = 0
                   /\ \E t \in Tasks :
                        /\ task[t] = Idle
                        /\ task'[t] # Idle
                        /\ PcRoute(task'[t].pc) = request'.route
                        /\ \A u \in Tasks \ {t} : task'[u] = task[u]
          /\ (request'.route = "none")
             => \/ /\ response'.code = 0
                   /\ task' = task
                \/ \E t \in Tasks :
                        /\ task[t] # Idle
                        /\ task'[t] = Idle
                        /\ response'.code \in {200, 500}
                        /\ response'.route = PcRoute(task[t].pc)
                        /\ \A u \in Tasks \ {t} : task'[u] = task[u]]_vars
    /\ \A t \in Tasks : (task[t] # Idle) ~> (task[t] = Idle)

\* the allocator query failed on a day that already has an entry, and the
\* request was answered 500
C16_Witness ==
    /\ request.route = "POST /submit"
    /\ executed = Rejected("SELECT MAX(order_number)")
    /\ response.code = 500
    /\ Len(entries) >= 1
    /\ entries[Len(entries)].created_at = now

\* C17: the entries table changes only in a step that answers POST /submit
\* with 200, which appends exactly one row, or answers PUT
\* /entries/:id/status with 200, which changes the status of one row; GET
\* /entries, GET and PUT /store-status and every 400, 403 or 404 answer leave
\* entries unchanged; no step removes an entry; POST /submit and PUT
\* /entries/:id/status leave store_status unchanged.
C17_EntriesFrame ==
    [][LET EntryRoutes == {"POST /submit", "PUT /entries/:id/status"}
           OtherRoutes == {"GET /entries", "GET /store-status", "PUT /store-status"}
       IN  /\ (entries' # entries)
              => \/ /\ response'.code = 200
                    /\ response'.route = "POST /submit"
                    /\ Len(entries') = Len(entries) + 1
                    /\ SubSeq(entries', 1, Len(entries)) = entries
                 \/ /\ response'.code = 200
                    /\ response'.route = "PUT /entries/:id/status"
                    /\ Len(entries') = Len(entries)
                    /\ \E i \in DOMAIN entries :
                         /\ entries'[i] = [entries[i] EXCEPT !.status = request'.status]
                         /\ \A j \in DOMAIN entries \ {i} : entries'[j] = entries[j]
           /\ (\/ request'.route \in OtherRoutes
               \/ response'.route \in OtherRoutes
               \/ response'.code \in {400, 403, 404})
              => entries' = entries
           /\ Len(entries') >= Len(entries)
           /\ \A i \in DOMAIN entries : entries'[i].id = entries[i].id
           /\ (request'.route \in EntryRoutes \/ response'.route \in EntryRoutes)
              => store_status' = store_status]_vars

\* GET /entries was answered while the table held a changed entry and the
\* store status existed
C17_Witness ==
    /\ request.route = "GET /entries"
    /\ response.code = 200
    /\ Len(entries) >= 2
    /\ \E i \in DOMAIN entries : entries[i].status = "Done"
    /\ store_status # <<>>

\* C18: when no two POST /submit requests overlap and all of them run
\* within one calendar day that started with no entries, the k-th stored
\* submission has orderNumber 100 + (k - 1).
C18_SequentialGapless ==
    (\A i \in DOMAIN entries : DATE(entries[i].created_at) = DATE(entries[1].created_at))
    => \A k \in DOMAIN entries : entries[k].order_number = BaseOrderNumber + (k - 1)

\* three submissions of one day have been stored
C18_Witness ==
    /\ Len(entries) = MaxEntries
    /\ \A i \in DOMAIN entries : entries[i].created_at = entries[1].created_at
    /\ entries[MaxEntries].order_number = BaseOrderNumber + (MaxEntries - 1)
    /\ response.route = "POST /submit"
    /\ response.code = 200

\* C19: when the day does not change between any request's allocator read
\* and its insert, the orderNumber values stored for a day are always
\* exactly 100..max (duplicates may occur, no number is skipped), so the
\* day's maximum is at most 99 plus the number of entries stored for that day.
C19_ContiguousPerDay ==
    \A day \in 0..MaxDay :
        LET rows == {i \in DOMAIN entries : DATE(entries[i].created_at) = day}
            numbers == {entries[i].order_number : i \in rows}
        IN  numbers # {}
            => /\ numbers = BaseOrderNumber..Max(numbers)
               /\ Max(numbers) <= BaseOrderNumber - 1 + Cardinality(rows)

\* a day holds a duplicate and a later number: 100, 100, 101
C19_Witness ==
    \E i, j, k \in DOMAIN entries :
        /\ i < j /\ j < k
        /\ entries[i].created_at = entries[k].created_at
        /\ entries[j].created_at = entries[k].created_at
        /\ entries[i].order_number = BaseOrderNumber
        /\ entries[j].order_number = BaseOrderNumber
        /\ entries[k].order_number = BaseOrderNumber + 1
====
